---------------------------- MODULE Spec2Model ----------------------------
(***************************************************************************)
(* Atmolite: the App component (src/unnamed/part_000) as a state machine.  *)
(*                                                                         *)
(* The state is the component's React state, the two localStorage keys it  *)
(* reads and writes, the pending setTimeout callbacks, and the running     *)
(* activations of the async handler handleSearch, each suspended at one of *)
(* its two awaits.                                                         *)
(*                                                                         *)
(* Representation of JavaScript values:                                    *)
(*   - a city string is a sequence of characters, '' is << >>;             *)
(*   - an error/message string is a sequence of text fragments, each an    *)
(*     atomic piece of text; s.includes(p) is "p is one of the fragments"; *)
(*   - a nullable value is << >> (null / undefined) or << v >>.            *)
(***************************************************************************)
EXTENDS Integers, Sequences, FiniteSets, TLC

VARIABLES
    cityInput,              \* useState('')                        line 24
    appState,               \* useState<AppState>(AppState.IDLE)   line 25
    weatherData,            \* useState<WeatherData | null>(null)  line 26
    generatedImage,         \* useState<string>('')                line 27
    errorMsg,               \* useState<string>('')                line 28
    username,               \* useState<string>('')                line 30
    showOnboarding,         \* useState<boolean>(false)            line 31
    showStoragePermission,  \* useState<boolean>(false)            line 32
    showPrivacy,            \* useState<boolean>(false)            line 33
    localStorage,           \* the two persisted keys              lines 20-21
    mounted,                \* whether the startup effect has run  line 42
    timers,                 \* pending setTimeout callbacks        line 56
    running,                \* activations of handleSearch suspended at an await
    event                   \* the handler or callback that ran in the last step

vars == << cityInput, appState, weatherData, generatedImage, errorMsg,
           username, showOnboarding, showStoragePermission, showPrivacy,
           localStorage, mounted, timers, running, event >>

fetchVars == << cityInput, appState, weatherData, generatedImage, errorMsg >>
modalVars == << username, showOnboarding, showStoragePermission, showPrivacy >>

-----------------------------------------------------------------------------
(* Bounds *)

MaxCityLen == 2
MaxMsgLen == 2

-----------------------------------------------------------------------------
(* Values *)

Null == << >>
Some(v) == << v >>

RECURSIVE SeqsUpTo(_, _)
SeqsUpTo(S, n) ==
    IF n = 0 THEN { << >> }
    ELSE LET shorter == SeqsUpTo(S, n - 1)
         IN  shorter \cup { Append(s, c) : s \in shorter, c \in S }

WhiteSpace == { " " }
Chars == WhiteSpace \cup { "k" }
CityStrings == SeqsUpTo(Chars, MaxCityLen)

\* enum AppState
AppStates == { "IDLE", "FETCHING_WEATHER", "GENERATING_IMAGE", "DISPLAY", "ERROR" }

\* The substrings the component looks for in a failure message.
MISSING_API_KEY == "MISSING_API_KEY"
FORBIDDEN == "403"
PERMISSION_DENIED == "Permission Denied"
DAILY_LIMIT == "Daily free limit reached"
TOO_MANY == "Too many requests"
OTHER_TEXT == "connection lost"

Fragments == { MISSING_API_KEY, FORBIDDEN, PERMISSION_DENIED, DAILY_LIMIT,
               TOO_MANY, OTHER_TEXT }
Messages == SeqsUpTo(Fragments, MaxMsgLen)

\* The three fixed texts handleSearch's catch block sets.
ConfigErrorText == << "API Key missing! Please check configuration." >>
AccessDeniedText == << "Access Denied. Please check API Key." >>
FallbackText == << "Unable to retrieve city data. Please try again." >>

\* A thrown error: an object whose message is a string or is missing.
Errors == { [message |-> m] : m \in { Null } \cup { Some(s) : s \in Messages } }

Names == { "", "Nir" }
USERNAME_KEY == "Atmolite_username"
STORAGE_PERMISSION_KEY == "Atmolite_storage_permission"
Decisions == { "granted", "denied" }

-----------------------------------------------------------------------------
(* String functions *)

RECURSIVE TrimStart(_)
TrimStart(s) ==
    IF s # << >> /\ Head(s) \in WhiteSpace THEN TrimStart(Tail(s)) ELSE s

RECURSIVE TrimEnd(_)
TrimEnd(s) ==
    IF s # << >> /\ s[Len(s)] \in WhiteSpace
    THEN TrimEnd(SubSeq(s, 1, Len(s) - 1))
    ELSE s

\* String.prototype.trim
Trim(s) == TrimEnd(TrimStart(s))

\* String.prototype.includes, for a pattern that is one fragment
Includes(s, pattern) == \E i \in 1..Len(s) : s[i] = pattern

\* JavaScript truthiness of a nullable string
Truthy(opt) == opt # Null /\ opt[1] # << >>
TruthyName(opt) == opt # Null /\ opt[1] # ""


-----------------------------------------------------------------------------
(* The collaborators of ./services/geminiService, as the specification     *)
(* describes them: each call is eventually settled, fulfilled with a       *)
(* result for its argument or rejected with an error.                      *)

\* getCityWeather(city) is fulfilled with a weather record for that city.
WeatherRecords(city) == { [cityName |-> city, isDay |-> d] : d \in BOOLEAN }

\* generateIsometricCity(data) is fulfilled with a reference to the scene
\* rendered for that record: a non-empty string.
ImageReferences(data) == { << "data:image", data >> }

Fulfilled(v) == [status |-> "fulfilled", value |-> Some(v), reason |-> Null]
Rejected(e) == [status |-> "rejected", value |-> Null, reason |-> Some(e)]

\* A promise the activation running[i] awaits and that is not settled yet.
Awaiting(i, fn) == running[i].await = fn /\ running[i].settled = Null

Settle(i, outcome) ==
    /\ running' = [running EXCEPT ![i].settled = Some(outcome)]
    /\ event' = "settle"
    /\ UNCHANGED << fetchVars, modalVars, localStorage, mounted, timers >>

GetCityWeatherResolves ==
    \E i \in DOMAIN running :
        /\ Awaiting(i, "getCityWeather")
        /\ \E data \in WeatherRecords(running[i].cityInput) :
               Settle(i, Fulfilled(data))

GetCityWeatherRejects ==
    \E i \in DOMAIN running :
        /\ Awaiting(i, "getCityWeather")
        /\ \E err \in Errors : Settle(i, Rejected(err))

GenerateIsometricCityResolves ==
    \E i \in DOMAIN running :
        /\ Awaiting(i, "generateIsometricCity")
        /\ \E imageUrl \in ImageReferences(running[i].data[1]) :
               Settle(i, Fulfilled(imageUrl))

GenerateIsometricCityRejects ==
    \E i \in DOMAIN running :
        /\ Awaiting(i, "generateIsometricCity")
        /\ \E err \in Errors : Settle(i, Rejected(err))

-----------------------------------------------------------------------------
(* What App renders, as a function of the state *)

isDailyLimitError == Includes(errorMsg, DAILY_LIMIT)
isRpmError == Includes(errorMsg, TOO_MANY)
isModalOpen == showOnboarding \/ showStoragePermission

\* Mutant of LoaderScreen: the loader shown for the first step only
LoaderScreen_FetchingOnly == appState = "FETCHING_WEATHER"

UserMenuShown == ~isModalOpen /\ ~isDailyLimitError
IdleScreen == appState = "IDLE"
LoaderScreen == appState \in { "FETCHING_WEATHER", "GENERATING_IMAGE" }
TiredScreen == appState = "ERROR" /\ isDailyLimitError
ErrorScreen == appState = "ERROR" /\ ~isDailyLimitError
DisplayScreen == appState = "DISPLAY" /\ weatherData # Null
AdBannerShown == ~isDailyLimitError

\* The copy of the generic error screen
ErrorHeading == IF isRpmError THEN "Too Fast!" ELSE "Oops!"
ErrorButton == IF isRpmError THEN "Wait a moment" ELSE "Try Again"

\* Mutant of FormRendered: the form mounted on every screen
FormRendered_Always == TRUE

\* Mutant of ResetRendered: a reset button on every screen
ResetRendered_Always == TRUE

\* Where the form (and its input) and a reset button are mounted
FormRendered == IdleScreen
ResetRendered == TiredScreen \/ ErrorScreen \/ DisplayScreen

-----------------------------------------------------------------------------
(* Initial state: the useState initial values, before the startup effect,  *)
(* over whatever earlier sessions left in localStorage.                    *)

StoredProfiles ==
    { [n \in { USERNAME_KEY, STORAGE_PERMISSION_KEY } |->
          IF n = USERNAME_KEY THEN name ELSE decision] :
      name \in { Null } \cup { Some(x) : x \in Names },
      decision \in { Null } \cup { Some(x) : x \in Decisions } }

Init ==
    /\ cityInput = << >>
    /\ appState = "IDLE"
    /\ weatherData = Null
    /\ generatedImage = << >>
    /\ errorMsg = << >>
    /\ username = ""
    /\ showOnboarding = FALSE
    /\ showStoragePermission = FALSE
    /\ showPrivacy = FALSE
    /\ localStorage \in StoredProfiles
    /\ mounted = FALSE
    /\ timers = 0
    /\ running = << >>
    /\ event = "construct"

-----------------------------------------------------------------------------
(* Startup, onboarding, storage consent, privacy policy *)

\* checkStoragePermission: the value showStoragePermission has after it
checkStoragePermission ==
    IF ~TruthyName(localStorage[STORAGE_PERMISSION_KEY])
    THEN TRUE
    ELSE showStoragePermission

\* Mutant of StartupEffect: checkStoragePermission() called on both branches
StartupEffect_AlwaysChecks ==
    /\ ~mounted
    /\ mounted' = TRUE
    /\ LET storedName == localStorage[USERNAME_KEY]
       IN  IF ~TruthyName(storedName)
           THEN /\ showOnboarding' = TRUE
                /\ UNCHANGED username
           ELSE /\ username' = storedName[1]
                /\ UNCHANGED showOnboarding
    /\ showStoragePermission' = checkStoragePermission
    /\ event' = "useEffect"
    /\ UNCHANGED << fetchVars, showPrivacy, localStorage, timers, running >>

\* Mutant of StartupEffect: the stored name is not consulted
StartupEffect_IgnoresName ==
    /\ ~mounted
    /\ mounted' = TRUE
    /\ showOnboarding' = TRUE
    /\ event' = "useEffect"
    /\ UNCHANGED << fetchVars, username, showStoragePermission, showPrivacy,
                    localStorage, timers, running >>

\* useEffect(..., [checkStoragePermission]): runs once, after the first render
StartupEffect ==
    /\ ~mounted
    /\ mounted' = TRUE
    /\ LET storedName == localStorage[USERNAME_KEY]
       IN  IF ~TruthyName(storedName)
           THEN /\ showOnboarding' = TRUE
                /\ UNCHANGED << username, showStoragePermission >>
           ELSE /\ username' = storedName[1]
                /\ showStoragePermission' = checkStoragePermission
                /\ UNCHANGED showOnboarding
    /\ event' = "useEffect"
    /\ UNCHANGED << fetchVars, showPrivacy, localStorage, timers, running >>

\* <Onboarding onComplete={handleSaveName} />
handleSaveName(name) ==
    /\ mounted /\ showOnboarding
    /\ localStorage' = [localStorage EXCEPT ![USERNAME_KEY] = Some(name)]
    /\ username' = name
    /\ showOnboarding' = FALSE
    /\ timers' = timers + 1
    /\ event' = "handleSaveName"
    /\ UNCHANGED << fetchVars, showStoragePermission, showPrivacy, mounted, running >>

\* the callback of setTimeout(() => setShowStoragePermission(true), 500)
TimerFires ==
    /\ timers > 0
    /\ timers' = timers - 1
    /\ showStoragePermission' = TRUE
    /\ event' = "setTimeout"
    /\ UNCHANGED << fetchVars, username, showOnboarding, showPrivacy,
                    localStorage, mounted, running >>

\* <StoragePermission onAllow={handleAllowStorage} onDeny={handleDenyStorage} />
handleStorageDecision(allowed) ==
    /\ mounted /\ showStoragePermission
    /\ localStorage' = [localStorage EXCEPT ![STORAGE_PERMISSION_KEY] =
                            Some(IF allowed THEN "granted" ELSE "denied")]
    /\ showStoragePermission' = FALSE
    /\ event' = "handleStorageDecision"
    /\ UNCHANGED << fetchVars, username, showOnboarding, showPrivacy,
                    mounted, timers, running >>

\* <UserMenu onOpenPrivacy={handleOpenPrivacy} />
handleOpenPrivacy ==
    /\ mounted /\ UserMenuShown
    /\ showPrivacy' = TRUE
    /\ event' = "handleOpenPrivacy"
    /\ UNCHANGED << fetchVars, username, showOnboarding, showStoragePermission,
                    localStorage, mounted, timers, running >>

\* <PrivacyPolicy onClose={handleClosePrivacy} />
handleClosePrivacy ==
    /\ mounted /\ showPrivacy
    /\ showPrivacy' = FALSE
    /\ event' = "handleClosePrivacy"
    /\ UNCHANGED << fetchVars, username, showOnboarding, showStoragePermission,
                    localStorage, mounted, timers, running >>

-----------------------------------------------------------------------------
(* The entry form, handleSearch and handleReset *)

\* onChange={(e) => setCityInput(e.target.value)}
ChangeCityInput(value) ==
    /\ mounted /\ FormRendered
    /\ value # cityInput
    /\ cityInput' = value
    /\ event' = "onChange"
    /\ UNCHANGED << appState, weatherData, generatedImage, errorMsg,
                    modalVars, localStorage, mounted, timers, running >>

\* Mutant of BlankInput: the guard without trim(), if (!cityInput) return;
BlankInput_NoTrim(s) == s = << >>

\* if (!cityInput.trim()) return;
BlankInput(s) == Trim(s) = << >>

\* Mutant of handleSearch: setErrorMsg('') left out
handleSearch_KeepsError ==
    /\ event' = "handleSearch"
    /\ IF BlankInput(cityInput)
       THEN UNCHANGED << fetchVars, running >>
       ELSE /\ appState' = "FETCHING_WEATHER"
            /\ running' = Append(running,
                   [await |-> "getCityWeather", cityInput |-> cityInput,
                    data |-> Null, settled |-> Null])
            /\ UNCHANGED << cityInput, weatherData, generatedImage, errorMsg >>
    /\ UNCHANGED << modalVars, localStorage, mounted, timers >>

\* handleSearch up to its first await: the call getCityWeather(cityInput)
handleSearch ==
    /\ event' = "handleSearch"
    /\ IF BlankInput(cityInput)
       THEN UNCHANGED << fetchVars, running >>
       ELSE /\ errorMsg' = << >>
            /\ appState' = "FETCHING_WEATHER"
            /\ running' = Append(running,
                   [await |-> "getCityWeather", cityInput |-> cityInput,
                    data |-> Null, settled |-> Null])
            /\ UNCHANGED << cityInput, weatherData, generatedImage >>
    /\ UNCHANGED << modalVars, localStorage, mounted, timers >>

\* <form onSubmit={handleSearch}>
SubmitForm ==
    /\ mounted /\ FormRendered
    /\ handleSearch

Remove(seq, i) == SubSeq(seq, 1, i - 1) \o SubSeq(seq, i + 1, Len(seq))

Settled(i, fn, status) ==
    /\ running[i].await = fn
    /\ running[i].settled # Null
    /\ running[i].settled[1].status = status

\* Mutant of ResumeAfterLookup: setWeatherData(data) left out
ResumeAfterLookup_NoStore ==
    \E i \in DOMAIN running :
        /\ Settled(i, "getCityWeather", "fulfilled")
        /\ appState' = "GENERATING_IMAGE"
        /\ running' = [running EXCEPT ![i] =
               [await |-> "generateIsometricCity",
                cityInput |-> running[i].cityInput,
                data |-> running[i].settled[1].value, settled |-> Null]]
        /\ event' = "handleSearch:lookup"
        /\ UNCHANGED << cityInput, weatherData, generatedImage, errorMsg,
                        modalVars, localStorage, mounted, timers >>

\* const data = await getCityWeather(cityInput); ... generateIsometricCity(data)
ResumeAfterLookup ==
    \E i \in DOMAIN running :
        /\ Settled(i, "getCityWeather", "fulfilled")
        /\ LET data == running[i].settled[1].value[1]
           IN  /\ weatherData' = Some(data)
               /\ appState' = "GENERATING_IMAGE"
               /\ running' = [running EXCEPT ![i] =
                      [await |-> "generateIsometricCity",
                       cityInput |-> running[i].cityInput,
                       data |-> Some(data), settled |-> Null]]
        /\ event' = "handleSearch:lookup"
        /\ UNCHANGED << cityInput, generatedImage, errorMsg,
                        modalVars, localStorage, mounted, timers >>

\* Mutant of ResumeAfterGeneration: setGeneratedImage(imageUrl) left out
ResumeAfterGeneration_NoImage ==
    \E i \in DOMAIN running :
        /\ Settled(i, "generateIsometricCity", "fulfilled")
        /\ appState' = "DISPLAY"
        /\ running' = Remove(running, i)
        /\ event' = "handleSearch:image"
        /\ UNCHANGED << cityInput, weatherData, generatedImage, errorMsg,
                        modalVars, localStorage, mounted, timers >>

\* const imageUrl = await generateIsometricCity(data); ... DISPLAY
ResumeAfterGeneration ==
    \E i \in DOMAIN running :
        /\ Settled(i, "generateIsometricCity", "fulfilled")
        /\ generatedImage' = running[i].settled[1].value[1]
        /\ appState' = "DISPLAY"
        /\ running' = Remove(running, i)
        /\ event' = "handleSearch:image"
        /\ UNCHANGED << cityInput, weatherData, errorMsg,
                        modalVars, localStorage, mounted, timers >>

\* Mutant of ClassifyError: 'Permission Denied' is not looked for
ClassifyError_Only403(err) ==
    IF err.message = Some(<< MISSING_API_KEY >>)
    THEN ConfigErrorText
    ELSE IF Truthy(err.message) /\ Includes(err.message[1], FORBIDDEN)
    THEN AccessDeniedText
    ELSE IF Truthy(err.message) THEN err.message[1] ELSE FallbackText

\* Mutant of ClassifyError: the MISSING_API_KEY branch left out
ClassifyError_NoKeyCheck(err) ==
    IF Truthy(err.message)
       /\ (Includes(err.message[1], FORBIDDEN)
               \/ Includes(err.message[1], PERMISSION_DENIED))
    THEN AccessDeniedText
    ELSE IF Truthy(err.message) THEN err.message[1] ELSE FallbackText

\* Mutant of ClassifyError: the last branch without its fallback,
\* setErrorMsg(err.message) with a missing message stored as ''
ClassifyError_NoFallback(err) ==
    IF err.message = Some(<< MISSING_API_KEY >>)
    THEN ConfigErrorText
    ELSE IF Truthy(err.message)
            /\ (Includes(err.message[1], FORBIDDEN)
                    \/ Includes(err.message[1], PERMISSION_DENIED))
    THEN AccessDeniedText
    ELSE IF err.message # Null THEN err.message[1] ELSE << >>

\* The message the catch block stores for a thrown error
ClassifyError(err) ==
    IF err.message = Some(<< MISSING_API_KEY >>)
    THEN ConfigErrorText
    ELSE IF Truthy(err.message)
            /\ (Includes(err.message[1], FORBIDDEN)
                    \/ Includes(err.message[1], PERMISSION_DENIED))
    THEN AccessDeniedText
    ELSE IF Truthy(err.message) THEN err.message[1] ELSE FallbackText

\* Mutant of Catch: a failed lookup is issued again instead of reported
Catch_Retries ==
    \E i \in DOMAIN running :
        /\ \E fn \in { "getCityWeather", "generateIsometricCity" } :
               Settled(i, fn, "rejected")
        /\ IF running[i].await = "getCityWeather"
           THEN /\ running' = [running EXCEPT ![i].settled = Null]
                /\ UNCHANGED << errorMsg, appState >>
           ELSE /\ errorMsg' = FallbackText
                /\ appState' = "ERROR"
                /\ running' = Remove(running, i)
        /\ event' = "handleSearch:catch"
        /\ UNCHANGED << cityInput, weatherData, generatedImage,
                        modalVars, localStorage, mounted, timers >>

\* Mutant of Catch: only a rejected lookup is caught, as when the try block
\* ends before the second await
Catch_LookupOnly ==
    \E i \in DOMAIN running :
        /\ Settled(i, "getCityWeather", "rejected")
        /\ errorMsg' = ClassifyError(running[i].settled[1].reason[1])
        /\ appState' = "ERROR"
        /\ running' = Remove(running, i)
        /\ event' = "handleSearch:catch"
        /\ UNCHANGED << cityInput, weatherData, generatedImage,
                        modalVars, localStorage, mounted, timers >>

\* catch (err: any) { ... }
Catch ==
    \E i \in DOMAIN running :
        /\ \E fn \in { "getCityWeather", "generateIsometricCity" } :
               Settled(i, fn, "rejected")
        /\ errorMsg' = ClassifyError(running[i].settled[1].reason[1])
        /\ appState' = "ERROR"
        /\ running' = Remove(running, i)
        /\ event' = "handleSearch:catch"
        /\ UNCHANGED << cityInput, weatherData, generatedImage,
                        modalVars, localStorage, mounted, timers >>

\* Mutant of handleReset: the reset also closes the privacy policy
handleReset_ClosesPrivacy ==
    /\ appState' = "IDLE"
    /\ cityInput' = << >>
    /\ weatherData' = Null
    /\ generatedImage' = << >>
    /\ showPrivacy' = FALSE
    /\ event' = "handleReset"
    /\ UNCHANGED << errorMsg, username, showOnboarding, showStoragePermission,
                    localStorage, mounted, timers, running >>

\* Mutant of handleReset: setWeatherData(null) left out
handleReset_KeepsWeather ==
    /\ appState' = "IDLE"
    /\ cityInput' = << >>
    /\ generatedImage' = << >>
    /\ event' = "handleReset"
    /\ UNCHANGED << weatherData, errorMsg, modalVars, localStorage, mounted,
                    timers, running >>

handleReset ==
    /\ appState' = "IDLE"
    /\ cityInput' = << >>
    /\ weatherData' = Null
    /\ generatedImage' = << >>
    /\ event' = "handleReset"
    /\ UNCHANGED << errorMsg, modalVars, localStorage, mounted, timers, running >>

\* <TiredMascot onReset={handleReset} />, <button onClick={handleReset}>
ClickReset ==
    /\ mounted /\ ResetRendered
    /\ handleReset

-----------------------------------------------------------------------------

Next ==
    \/ StartupEffect
    \/ \E name \in Names : handleSaveName(name)
    \/ TimerFires
    \/ \E allowed \in BOOLEAN : handleStorageDecision(allowed)
    \/ handleOpenPrivacy
    \/ handleClosePrivacy
    \/ \E value \in CityStrings : ChangeCityInput(value)
    \/ SubmitForm
    \/ GetCityWeatherResolves
    \/ GetCityWeatherRejects
    \/ ResumeAfterLookup
    \/ GenerateIsometricCityResolves
    \/ GenerateIsometricCityRejects
    \/ ResumeAfterGeneration
    \/ Catch
    \/ ClickReset

Spec == Init /\ [][Next]_vars

\* The steps of an accepted submission after the submit itself: a collaborator
\* settles the outstanding call, and handleSearch resumes from its await.
Progress ==
    \/ GetCityWeatherResolves
    \/ GetCityWeatherRejects
    \/ ResumeAfterLookup
    \/ GenerateIsometricCityResolves
    \/ GenerateIsometricCityRejects
    \/ ResumeAfterGeneration
    \/ Catch

\* Every collaborator call is eventually settled, and a continuation whose
\* promise is settled is eventually run by the event loop.
FairSpec == Spec /\ WF_vars(Progress)

-----------------------------------------------------------------------------
(* Several sessions on one device: the page is loaded again, the component *)
(* is constructed anew, pending timers and activations are gone, and       *)
(* localStorage is what the handlers of the earlier sessions wrote.        *)

Reload ==
    /\ mounted
    /\ cityInput' = << >>
    /\ appState' = "IDLE"
    /\ weatherData' = Null
    /\ generatedImage' = << >>
    /\ errorMsg' = << >>
    /\ username' = ""
    /\ showOnboarding' = FALSE
    /\ showStoragePermission' = FALSE
    /\ showPrivacy' = FALSE
    /\ mounted' = FALSE
    /\ timers' = 0
    /\ running' = << >>
    /\ event' = "construct"
    /\ UNCHANGED localStorage

\* A fresh profile: nothing persisted
FreshInit ==
    /\ Init
    /\ \A key \in DOMAIN localStorage : localStorage[key] = Null

SessionsNext == Next \/ Reload

SessionsSpec == FreshInit /\ [][SessionsNext]_vars

-----------------------------------------------------------------------------
(* Properties *)

\* A lookup that has just been rejected with a message containing `pattern`,
\* whose rejection the catch block handles in this step.
LookupFailureHandled(pattern) ==
    /\ event' = "handleSearch:catch"
    /\ \E i \in DOMAIN running :
           /\ Settled(i, "getCityWeather", "rejected")
           /\ Truthy(running[i].settled[1].reason[1].message)
           /\ Includes(running[i].settled[1].reason[1].message[1], pattern)
           /\ running' = Remove(running, i)

\* C1: submitting an empty or whitespace-only city input is a no-op: the
\* state stays IDLE, cityInput, weatherData, generatedImage and errorMsg are
\* unchanged, and no call to a collaborator is started.
C1_BlankSubmitIsNoOp ==
    [][(event' = "handleSearch" /\ Trim(cityInput) = << >>)
          => (appState = "IDLE" /\ UNCHANGED << fetchVars, running >>)]_vars

C1_Witness ==
    /\ event = "handleSearch"
    /\ cityInput # << >> /\ \A i \in 1..Len(cityInput) : cityInput[i] \in WhiteSpace
    /\ appState = "IDLE" /\ running = << >>

C3_DailyLimitShowsTiredScreen ==
    [][LookupFailureHandled(DAILY_LIMIT) => (TiredScreen' /\ ~ErrorScreen')]_vars

\* C4: when the weather lookup fails with a message containing "Too many
\* requests", the generic error screen is rendered with the rate-limit copy
\* ("Too Fast!" / "Wait a moment"), not the default copy.
C4_TooManyRequestsShowsRateLimitCopy ==
    [][LookupFailureHandled(TOO_MANY)
          => (ErrorScreen' /\ ErrorHeading' = "Too Fast!"
                           /\ ErrorButton' = "Wait a moment")]_vars

\* C5: reset runs from Display or Error, sets appState to IDLE and clears
\* cityInput, weatherData and generatedImage; and what a Display shows always
\* comes from the submission that led to it: the stored record is the one
\* looked up for the city now in cityInput, and the stored image is the one
\* generated for that record.
C5_ResetClearsAndDisplayIsFresh ==
    /\ [][event' = "handleReset"
             => /\ appState \in { "DISPLAY", "ERROR" }
                /\ appState' = "IDLE"
                /\ cityInput' = << >>
                /\ weatherData' = Null
                /\ generatedImage' = << >>]_vars
    /\ [](appState = "DISPLAY"
             => /\ weatherData # Null
                /\ weatherData[1] \in WeatherRecords(cityInput)
                /\ generatedImage \in ImageReferences(weatherData[1]))

\* reset has just run from Display (errorMsg is empty there, not in Error)
C5_Witness ==
    /\ event = "handleReset" /\ errorMsg = << >>
    /\ appState = "IDLE" /\ cityInput = << >>
    /\ weatherData = Null /\ generatedImage = << >>

\* The calls to collaborator fn that are outstanding
NumAwaiting(fn) == Cardinality({ i \in DOMAIN running : Awaiting(i, fn) })

\* This step calls collaborator fn
Invokes(fn) == NumAwaiting(fn)' > NumAwaiting(fn)

\* C6: at most one submission is in flight at any time, and no step taken
\* while appState is not IDLE runs handleSearch or starts a call.
C6_OneSubmissionInFlight ==
    /\ [](Len(running) <= 1)
    /\ [][appState # "IDLE"
             => /\ event' # "handleSearch"
                /\ ~Invokes("getCityWeather")
                /\ Len(running') <= Len(running)]_vars

\* a UI event handled while a submission's image generation is pending
C6_Witness ==
    /\ appState = "GENERATING_IMAGE"
    /\ Len(running) = 1 /\ Awaiting(1, "generateIsometricCity")
    /\ event = "handleStorageDecision"

\* The edges of the view state machine
Edges ==
    { << "IDLE", "FETCHING_WEATHER" >>,
      << "FETCHING_WEATHER", "GENERATING_IMAGE" >>,
      << "GENERATING_IMAGE", "DISPLAY" >>,
      << "FETCHING_WEATHER", "ERROR" >>,
      << "GENERATING_IMAGE", "ERROR" >>,
      << "DISPLAY", "IDLE" >>,
      << "ERROR", "IDLE" >> }

\* C7: appState changes only along the edges of the view state machine;
\* Error is entered only from the two fetching states and Idle only by a
\* reset from Display or Error.
C7_OnlyTheseEdges ==
    [][/\ appState' # appState => << appState, appState' >> \in Edges
       /\ (appState' = "IDLE" /\ appState # "IDLE") => event' = "handleReset"
       /\ event' = "handleReset" => appState \in { "DISPLAY", "ERROR" }]_vars

\* Error entered from GeneratingImage: the record of the lookup is stored
C7_Witness ==
    appState = "ERROR" /\ weatherData # Null /\ event = "handleSearch:catch"

\* C8: an accepted submit calls the weather lookup exactly once, and no
\* other step calls it; image generation is called only by the step that
\* resumes from a fulfilled lookup, once, with the record the lookup
\* returned; and the step that reports a failure leaves no call outstanding.
C8_OneLookupThenOneGeneration ==
    [][/\ (event' = "handleSearch" /\ Trim(cityInput) # << >>)
            => NumAwaiting("getCityWeather")' = NumAwaiting("getCityWeather") + 1
       /\ Invokes("getCityWeather")
            => (event' = "handleSearch" /\ running = << >>)
       /\ Invokes("generateIsometricCity")
            => /\ NumAwaiting("generateIsometricCity")'
                     = NumAwaiting("generateIsometricCity") + 1
               /\ \E i \in DOMAIN running :
                      /\ Settled(i, "getCityWeather", "fulfilled")
                      /\ Len(running') = Len(running)
                      /\ Awaiting(i, "generateIsometricCity")'
                      /\ running'[i].data = running[i].settled[1].value
                      /\ weatherData' = running[i].settled[1].value
       /\ (\E fn \in { "getCityWeather", "generateIsometricCity" } :
               \E i \in DOMAIN running : Settled(i, fn, "rejected"))
            => (~Invokes("getCityWeather") /\ ~Invokes("generateIsometricCity"))
       /\ event' = "handleSearch:catch" => running' = << >>]_vars

\* image generation outstanding for the record the lookup returned
C8_Witness ==
    /\ Len(running) = 1 /\ Awaiting(1, "generateIsometricCity")
    /\ running[1].data = weatherData /\ weatherData # Null
    /\ event = "handleSearch:lookup"

\* C9: a rejected lookup or generation moves appState to ERROR, and whenever
\* appState is ERROR the errorMsg is a non-empty string, also when the
\* thrown error has an empty or missing message.
C9_FailureGivesErrorWithMessage ==
    /\ [](appState = "ERROR" => errorMsg # << >>)
    /\ [][event' = "handleSearch:catch"
             => (appState' = "ERROR" /\ errorMsg' # << >>)]_vars
    /\ [][(\E i \in DOMAIN running :
              /\ running[i].settled # Null
              /\ running[i].settled[1].status = "rejected"
              /\ running' # running)
             => (event' = "handleSearch:catch" /\ appState' = "ERROR")]_vars

\* the fallback text, shown for an error with an empty or missing message
C9_Witness ==
    appState = "ERROR" /\ errorMsg = FallbackText /\ event = "handleSearch:catch"

\* C10: the advertisement banner is rendered on every screen except the
\* quota-exhausted one: on the entry form, the loader, the generic error
\* screen and the display screen.
C10_AdBannerOnEveryOtherScreen ==
    (IdleScreen \/ LoaderScreen \/ ErrorScreen \/ DisplayScreen) => AdBannerShown

\* C11 as stated: once handleSaveName has stored a name, whatever its value,
\* the onboarding modal is not shown again, in this or a later session.
C11_NeverAgainAfterAnyName ==
    localStorage[USERNAME_KEY] # Null => ~showOnboarding

\* C11, amended: the onboarding modal is opened only by the startup effect
\* of a session whose profile has no non-empty name persisted, it is opened
\* by every such startup, handleSaveName closes it and persists the name it
\* is given, and while a non-empty name is persisted the modal is not shown,
\* in this or any later session.
C11_OnboardingOncePerFreshProfile ==
    /\ [](TruthyName(localStorage[USERNAME_KEY]) => ~showOnboarding)
    /\ [][(showOnboarding' /\ ~showOnboarding)
             => (event' = "useEffect" /\ ~TruthyName(localStorage[USERNAME_KEY]))]_vars
    /\ [][(event' = "useEffect" /\ ~TruthyName(localStorage[USERNAME_KEY]))
             => showOnboarding']_vars
    /\ [][event' = "handleSaveName"
             => (~showOnboarding' /\ localStorage'[USERNAME_KEY] = Some(username'))]_vars

\* the startup of a later session of a profile whose name and consent
\* decision were saved by the handlers of an earlier one
C11_Witness ==
    /\ event = "useEffect" /\ mounted
    /\ localStorage[USERNAME_KEY] = Some("Nir") /\ username = "Nir"
    /\ localStorage[STORAGE_PERMISSION_KEY] # Null
    /\ ~showOnboarding

\* C12: the storage-consent modal is shown only while no consent decision
\* is persisted: once handleStorageDecision has written 'granted' or
\* 'denied', the modal is not shown, whether at startup, on completing the
\* onboarding or when its delayed timer fires.
C12_NoConsentModalOnceDecided ==
    localStorage[STORAGE_PERMISSION_KEY] # Null => ~showStoragePermission

ModalEvents ==
    { "handleSaveName", "setTimeout", "handleStorageDecision",
      "handleOpenPrivacy", "handleClosePrivacy" }

SearchEvents ==
    { "handleSearch", "handleSearch:lookup", "handleSearch:image",
      "handleSearch:catch", "handleReset" }

\* C13: the onboarding, consent and privacy handlers and the delayed timer
\* leave appState, cityInput, weatherData, generatedImage, errorMsg and the
\* outstanding calls unchanged; submit (with its continuations) and reset
\* leave the modal flags, the username, the timers and localStorage
\* unchanged; and the state a submission ends in is given by its own
\* activation alone, whatever modal steps were interleaved with it.
C13_ModalsAndFetchAreIndependent ==
    /\ [][event' \in ModalEvents => UNCHANGED << fetchVars, running >>]_vars
    /\ [][event' \in SearchEvents
             => UNCHANGED << modalVars, localStorage, timers >>]_vars
    /\ [][event' = "handleSearch:image"
             => \E i \in DOMAIN running :
                    /\ appState' = "DISPLAY"
                    /\ weatherData' = running[i].data
                    /\ generatedImage' = running[i].settled[1].value[1]]_vars
    /\ [][event' = "handleSearch:catch"
             => \E i \in DOMAIN running :
                    /\ appState' = "ERROR"
                    /\ running[i].settled[1].status = "rejected"
                    /\ errorMsg' = ClassifyError(running[i].settled[1].reason[1])]_vars

\* the delayed timer fired while a lookup was outstanding
C13_Witness ==
    /\ appState = "FETCHING_WEATHER"
    /\ Len(running) = 1 /\ Awaiting(1, "getCityWeather")
    /\ event = "setTimeout" /\ showStoragePermission

\* The catch block handles, in this step, a rejection whose message is
\* exactly the missing-credential marker.
MissingKeyHandled ==
    /\ event' = "handleSearch:catch"
    /\ \E i \in DOMAIN running :
           /\ running[i].settled # Null
           /\ running[i].settled[1].status = "rejected"
           /\ running[i].settled[1].reason[1].message = Some(<< MISSING_API_KEY >>)
           /\ running' = Remove(running, i)

\* C14 as stated: once the configuration error is shown, appState never
\* leaves ERROR.
C14_ConfigErrorIsTerminal ==
    [][(appState = "ERROR" /\ errorMsg = ConfigErrorText) => appState' = "ERROR"]_vars

\* C14, amended: a failure whose message is exactly "MISSING_API_KEY" gives
\* ERROR with the fixed configuration-error message; that state is left
\* only by a reset, which returns to IDLE, and no lookup is started while
\* appState is ERROR.
C14_ConfigErrorUntilReset ==
    /\ [][MissingKeyHandled
             => (appState' = "ERROR" /\ errorMsg' = ConfigErrorText)]_vars
    /\ [][(appState = "ERROR" /\ errorMsg = ConfigErrorText
              /\ (appState' # "ERROR" \/ errorMsg' # errorMsg))
             => (event' = "handleReset" /\ appState' = "IDLE")]_vars
    /\ [][appState = "ERROR" => ~Invokes("getCityWeather")]_vars

\* the configuration error, just reported
C14_Witness ==
    /\ appState = "ERROR" /\ errorMsg = ConfigErrorText
    /\ event = "handleSearch:catch" /\ running = << >>

\* C15: provided every collaborator call is eventually settled, every
\* accepted submit eventually reaches DISPLAY or ERROR; a loading state always
\* has a next step of the submission, and in DISPLAY and ERROR a reset is
\* always available.
C15_SubmitEndsInDisplayOrError ==
    /\ (appState \in { "FETCHING_WEATHER", "GENERATING_IMAGE" })
           ~> (appState \in { "DISPLAY", "ERROR" })
    /\ [](appState \in { "FETCHING_WEATHER", "GENERATING_IMAGE" }
             => ENABLED Progress)
    /\ [](appState \in { "DISPLAY", "ERROR" } => ENABLED ClickReset)

\* a submission that ended in ERROR at its second step, reset available
C15_Witness ==
    /\ appState = "ERROR" /\ weatherData # Null /\ running = << >>
    /\ ENABLED ClickReset

\* The five screens, as rendered
ScreensShown ==
    LET shown == << IdleScreen, LoaderScreen, ErrorScreen, TiredScreen, DisplayScreen >>
    IN  { i \in DOMAIN shown : shown[i] }

\* C16: in every reachable state exactly one of the five screens (entry
\* form, loader, generic error, quota-exhausted, display) is rendered.
C16_ExactlyOneScreen ==
    Cardinality(ScreensShown) = 1

\* the quota-exhausted screen, alone
C16_Witness ==
    TiredScreen /\ ScreensShown = { 4 } /\ event = "handleSearch:catch"

\* The classification C17 states, for a failure message m (missing: Null)
ExpectedErrorMsg(m) ==
    CASE m = Some(<< MISSING_API_KEY >>) -> ConfigErrorText
      [] /\ m # Some(<< MISSING_API_KEY >>)
         /\ m # Null
         /\ \E i \in 1..Len(m[1]) : m[1][i] \in { FORBIDDEN, PERMISSION_DENIED }
            -> AccessDeniedText
      [] OTHER -> IF m = Null \/ m[1] = << >> THEN FallbackText ELSE m[1]

\* C17: the errorMsg stored for a failure with message m is the fixed
\* configuration-error text if m is "MISSING_API_KEY", else the fixed
\* access-denied text if m contains "403" or "Permission Denied", else m
\* itself, or the fallback text when m is empty or missing; the same for a
\* failed lookup and a failed image generation.
C17_ErrorClassification ==
    [][event' = "handleSearch:catch"
          => \E i \in DOMAIN running :
                 /\ running[i].settled # Null
                 /\ running[i].settled[1].status = "rejected"
                 /\ running' = Remove(running, i)
                 /\ \A fn \in { "getCityWeather", "generateIsometricCity" } :
                        running[i].await = fn
                            => errorMsg' = ExpectedErrorMsg(
                                   running[i].settled[1].reason[1].message)]_vars

\* access denied, reported for a failed image generation
C17_Witness ==
    /\ appState = "ERROR" /\ errorMsg = AccessDeniedText
    /\ weatherData # Null /\ event = "handleSearch:catch"

\* C18: errorMsg is empty whenever appState is FETCHING_WEATHER,
\* GENERATING_IMAGE or DISPLAY: an accepted submit clears the message of an
\* earlier failure before its lookup starts.
C18_NoStaleErrorWhileSearching ==
    /\ [](appState \in { "FETCHING_WEATHER", "GENERATING_IMAGE", "DISPLAY" }
             => errorMsg = << >>)
    /\ [][(event' = "handleSearch" /\ Trim(cityInput) # << >>)
             => (errorMsg' = << >> /\ appState' = "FETCHING_WEATHER")]_vars

\* the entry form after a failed search and a reset, the old message still
\* stored, with a city typed whose submit starts a lookup and clears it
C18_Witness ==
    /\ appState = "IDLE" /\ errorMsg # << >>
    /\ ENABLED (SubmitForm /\ appState' = "FETCHING_WEATHER" /\ errorMsg' = << >>)

\* C19: while appState is GENERATING_IMAGE, weatherData is the record the
\* current submission's lookup returned, the one image generation was called
\* with; and in DISPLAY the stored image is the one generated for exactly
\* the stored weatherData.
C19_ImageBelongsToRecord ==
    /\ appState = "GENERATING_IMAGE"
          => /\ Len(running) = 1
             /\ running[1].await = "generateIsometricCity"
             /\ weatherData # Null
             /\ weatherData = running[1].data
             /\ weatherData[1] \in WeatherRecords(running[1].cityInput)
    /\ appState = "DISPLAY"
          => /\ weatherData # Null
             /\ generatedImage # << >>
             /\ generatedImage[2] = weatherData[1]

\* the image for the stored record has arrived and is about to be stored
C19_Witness ==
    /\ appState = "GENERATING_IMAGE" /\ Len(running) = 1
    /\ Settled(1, "generateIsometricCity", "fulfilled")
    /\ running[1].settled[1].value[1] \in ImageReferences(weatherData[1])

\* C20: the onboarding modal and the storage-consent modal are never open
\* at the same time.
C20_ModalsNeverBothOpen ==
    ~(showOnboarding /\ showStoragePermission)

\* the consent modal opened by the delayed timer, the onboarding closed
C20_Witness ==
    /\ event = "setTimeout" /\ timers = 0
    /\ showStoragePermission /\ ~showOnboarding
    /\ localStorage[USERNAME_KEY] # Null

=============================================================================
